---- MODULE Spec2Model ----
(***************************************************************************)
(* The A-Level question perturbation pipeline of script.py: four stages    *)
(* (Transcription, Perturbation, Validation, Extraction) run one after the *)
(* other by main(), each calling an external model service once per work   *)
(* unit and persisting what it accepts.                                    *)
(*                                                                         *)
(* Program state: the position of main() and of the running stage (pc,     *)
(* idx), the stage runners' lists and token totals, main()'s own variables *)
(* (the mode flag, the clear-images decision, the special prompts, the     *)
(* token counts the runners returned, stage_costs), the three StageLog     *)
(* files and the final document.  Environment: the image directory,        *)
(* whether the output files hold content of a prior run, whether a         *)
(* resource a stage loads is on disk, what the operator types, and, per    *)
(* unit, what the service answers, what usage metadata its response        *)
(* carries and whether the write to the log succeeds.                      *)
(*                                                                         *)
(* Bookkeeping that the program does not hold (hist, entered, called,      *)
(* calls, sleeps, inputs, injected, printed, runs, clears, and the         *)
(* run/unit marks on file contents) records what happened so that the      *)
(* properties can speak about it; no action reads it in a guard.           *)
(*                                                                         *)
(* Two smaller machines stand beside the pipeline: the housekeeping script *)
(* clear.py (SpecClear: the output files, the image directory and the      *)
(* operator's answers), and the rendering of a stage prompt from a prompt  *)
(* text and a special prompt in the Model Invokers (SpecRender).           *)
(*                                                                         *)
(* Money is counted in units of 1 / (100 * 1,000,000) dollar, in which     *)
(* both token rates are whole numbers; the rounding of Python's floats is  *)
(* not modelled.  Elapsed times are left out; of time.sleep only the fact  *)
(* that it was called is kept, not how long it lasts.  In                  *)
(* run_validation_stage a `reasoning` that cannot be sliced raises inside  *)
(* the rejecting branch and ends in the same except clause: the unit is    *)
(* rejected either way.                                                    *)
(***************************************************************************)
EXTENDS Integers, Sequences, FiniteSets, TLC

\* Largest number of image files in the image directory.
MaxImages == 2

VARIABLES
    pc,                     \* position of main(): which stage runs, or how it ended
    prior,                  \* TRUE: the output files hold content written by a prior run
    imgFiles,               \* the image files of IMG_DIR (by name)
    log,                    \* the three StageLog files, 1..3
    tex,                    \* the final document file
    image_files,            \* run_transcription_stage: the sorted list of images
    idx,                    \* the running stage's loop index (enumerate(..., 1))
    transcribed_questions,  \* accepted sequence of stage 1
    perturbed_questions,    \* accepted sequence of stage 2
    validated_questions,    \* accepted sequence of stage 3
    diag,                   \* diagnostics printed by run_extraction_stage
    hist,                   \* per unit of the running stage: what the environment did
    entered,                \* stage runners entered so far
    called,                 \* stages that invoked the service so far
    service,                \* which answers the external service gives in this run
    otherFiles,             \* the files of IMG_DIR that are no images
    NON_INTERACTIVE,        \* the mode flag set from the command line
    clear_img,              \* main(): "None", "True" or "False"
    special_prompt_1,       \* main(): the instruction for Transcription
    special_prompt_2,       \* main(): the instruction for Perturbation
    special_prompt_4,       \* main(): the instruction for Extraction
    total_input_tokens,     \* the running stage's input token total
    total_output_tokens,    \* the running stage's output token total
    stage_tokens,           \* main(): (input_tokens_k, output_tokens_k) by stage k
    stage_costs,            \* main(): the dict of token pairs by stage name
    report,                 \* what print_cost_report printed last
    summary,                \* the totals of the final summary
    inputs,                 \* the requests for operator input made so far
    injected,               \* per stage: the instructions passed to the Model Invoker
    calls,                  \* the units the running stage invoked the service for
    sleeps,                 \* the units the running stage slept before
    output_files,           \* clear.py: the four output files
    img_dir,                \* clear.py: the image directory
    printed,                \* clear.py: what the running function printed
    runs,                   \* clear.py: how often the script was run
    clears,                 \* clear.py: how often clearing the output files was confirmed
    prompt_text,            \* a Model Invoker's prompt template
    special_prompt,         \* a Model Invoker's instruction
    prompt_with_special     \* a Model Invoker's rendered prompt

\* What main() holds about the operator's choices.
operatorVars == <<NON_INTERACTIVE, clear_img, special_prompt_1,
                  special_prompt_2, special_prompt_4, inputs>>
\* The token totals of the running stage.
totalVars == <<total_input_tokens, total_output_tokens>>
\* What main() holds about token usage.
usageVars == <<stage_tokens, stage_costs, report, summary>>

\* What clear.py works on.
houseVars == <<output_files, img_dir, printed, runs, clears>>
\* The rendering of a prompt.
renderVars == <<prompt_text, special_prompt, prompt_with_special>>

vars == <<pc, prior, imgFiles, log, tex, image_files, idx,
          transcribed_questions, perturbed_questions, validated_questions,
          diag, hist, entered, called, service, otherFiles, NON_INTERACTIVE,
          clear_img, special_prompt_1, special_prompt_2, special_prompt_4,
          total_input_tokens, total_output_tokens, stage_tokens, stage_costs,
          report, summary, inputs, injected, calls, sleeps, output_files,
          img_dir, printed, runs, clears, prompt_text, special_prompt,
          prompt_with_special>>

(***************************************************************************)
(* JSON values and their text.  A value is [kind, items]; an item is one   *)
(* member [key, type, text] of an object (in insertion order, as a Python  *)
(* dict keeps it), one element of an array (key ""), or the single scalar. *)
(***************************************************************************)
Member(k, ty, tx) == [key |-> k, type |-> ty, text |-> tx]
Object(ms) == [kind |-> "object", items |-> ms]
Array(es) == [kind |-> "array", items |-> es]
Number(tx) == [kind |-> "number", items |-> <<Member("", "number", tx)>>]

\* What json.loads raising is represented by.
ParseError == [kind |-> "error", items |-> <<>>]

QuestionObj(q) == Object(<<Member("question", "string", q)>>)
AnswerObj == Object(<<Member("answer", "string", "Q1")>>)
QuestionArray == Array(<<Member("", "string", "question")>>)
PlainArray == Array(<<Member("", "string", "Q1")>>)
FiveNumber == Number("5")
WellPosed(ty, tx) == Object(<<Member("well_posed", ty, tx)>>)
Rejected == Object(<<Member("well_posed", "bool", "false"),
                     Member("reasoning", "string", "ambiguous")>>)
EmptyObj == Object(<<>>)
LatexObj(ty, tx) == Object(<<Member("latex_document", ty, tx)>>)

Quote(s) == "\"" \o s \o "\""
ScalarText(m) == IF m.type = "string" THEN Quote(m.text) ELSE m.text

RECURSIVE JoinItems(_, _)
JoinItems(ms, isObject) ==
    IF ms = <<>> THEN ""
    ELSE LET m == Head(ms)
             one == IF isObject THEN Quote(m.key) \o ": " \o ScalarText(m)
                    ELSE ScalarText(m)
         IN IF Len(ms) = 1 THEN one
            ELSE one \o ", " \o JoinItems(Tail(ms), isObject)

\* json.dumps(value, ensure_ascii=False)
Dumps(v) ==
    IF v.kind = "object" THEN "{" \o JoinItems(v.items, TRUE) \o "}"
    ELSE IF v.kind = "array" THEN "[" \o JoinItems(v.items, FALSE) \o "]"
    ELSE ScalarText(v.items[1])

\* The JSON values the service's answers can denote.
TranscribeValues ==
    {QuestionObj("Q1"), QuestionObj(""), AnswerObj, QuestionArray, PlainArray,
     FiveNumber}
ValidateValues ==
    {WellPosed("bool", "true"), Rejected, WellPosed("string", "false"),
     EmptyObj, FiveNumber}
LatexArray == Array(<<Member("", "string", "latex_document")>>)
ExtractValues ==
    {LatexObj("string", "DOC"), LatexObj("number", "5"), EmptyObj, LatexArray,
     FiveNumber}
JsonValues == TranscribeValues \cup ValidateValues \cup ExtractValues

\* A response cut off before its end: not JSON.
TruncatedText == "{\"question\": "

\* json.loads(text): the value whose text it is, or the error.
TextOf == [v \in JsonValues |-> Dumps(v)]
Loads(text) ==
    IF \E v \in JsonValues : TextOf[v] = text
    THEN CHOOSE v \in JsonValues : TextOf[v] = text
    ELSE ParseError

\* Python's `key in value` for a dict (its keys) and a list (its elements);
\* for an int it raises TypeError, see InRaises.
In(key, v) ==
    IF v.kind = "object" THEN \E i \in 1..Len(v.items) : v.items[i].key = key
    ELSE \E i \in 1..Len(v.items) :
            v.items[i].type = "string" /\ v.items[i].text = key
InRaises(v) == v.kind \notin {"object", "array"}

(***************************************************************************)
(* Files.  A log is [exists, lines]; a line carries the text written and,  *)
(* as bookkeeping, the run that wrote it and the unit it was written for.  *)
(***************************************************************************)
Line(text, run, unit) == [text |-> text, run |-> run, unit |-> unit]
NoFile == [exists |-> FALSE, lines |-> <<>>]
PriorLog == [exists |-> TRUE,
             lines |-> <<Line(Dumps(QuestionObj("Q1")) \o "\n", "prior", 0)>>]
NoTex == [exists |-> FALSE, text |-> "", run |-> "none"]
PriorTex == [exists |-> TRUE, text |-> "OLD", run |-> "prior"]

\* X_FILE.unlink() when it exists
Unlink(f) == NoFile
\* open(X_FILE, "a") ... f.write(text)
AppendTo(f, text, unit) ==
    [exists |-> TRUE, lines |-> Append(f.lines, Line(text, "current", unit))]

RECURSIVE SortedSeq(_)
\* sorted(IMG_DIR.glob("*.png")): the names in increasing order
SortedSeq(S) ==
    IF S = {} THEN <<>>
    ELSE LET m == CHOOSE x \in S : \A y \in S : x <= y
         IN <<m>> \o SortedSeq(S \ {m})

(***************************************************************************)
(* What the environment does for one unit: the service call raises, or     *)
(* returns a text; and the append to the log succeeds or raises.           *)
(***************************************************************************)
Raised == [raised |-> TRUE, text |-> ""]
Returned(t) == [raised |-> FALSE, text |-> t]
TranscribeOutcomes ==
    {Raised} \cup {Returned(Dumps(v)) : v \in TranscribeValues}
             \cup {Returned(TruncatedText)}
ValidateOutcomes ==
    {Raised} \cup {Returned(Dumps(v)) : v \in ValidateValues}
             \cup {Returned(TruncatedText)}
ExtractOutcomes ==
    {Raised} \cup {Returned(Dumps(v)) : v \in ExtractValues}
             \cup {Returned(TruncatedText)}

\* The answers the external service gives in a run:
\*   "content": any text of the outcome sets; its responses have no `usage`
\*              attribute; the write to a log can fail
\*   "usage":   an acceptable or an unacceptable object or a text that does
\*              not parse, or the call raises; `usage` holds token counts,
\*              is None, or is no attribute; the write to a file can fail
\*   "plain":   an acceptable or an unacceptable object, or the call raises;
\*              no `usage` attribute; the write to a log succeeds
Services == {"content", "usage", "plain"}
PlainValues ==
    {QuestionObj("Q1"), AnswerObj, WellPosed("bool", "true"), Rejected,
     LatexObj("string", "DOC"), EmptyObj}
Answers(sv, outcomes) ==
    IF sv = "content" THEN outcomes
    ELSE {o \in outcomes :
            \/ o.raised
            \/ sv = "usage" /\ o.text = TruncatedText
            \/ \E v \in PlainValues : o.text = Dumps(v)}
Writes(sv) == IF sv = "plain" THEN {TRUE} ELSE BOOLEAN

\* The token counts of a response whose `usage` holds counts.
PromptTokens == 3
CompletionTokens == 2

\* The `usage` of a response: "reported" (a usage object with the counts
\* above), "none" (the attribute is there and holds None), "absent" (no such
\* attribute).  A call that raised has no response: "absent".
Usages(sv, o) ==
    IF sv = "usage" /\ ~o.raised THEN {"reported", "none", "absent"}
    ELSE {"absent"}

\* What the Model Invoker (transcribe_image, perturb_question,
\* validate_question, extract_to_latex) hands to its caller for the outcome o
\* of the service call and the usage u of the response.  Lines 178-182:
\* hasattr(response, 'usage') is false only when the attribute is absent;
\* when it holds None, `response.usage.prompt_tokens` raises AttributeError.
Invoked(rs, t, i, o) ==
    [raised |-> rs, text |-> t, input_tokens |-> i, output_tokens |-> o]
ModelInvoker(o, u) ==
    IF o.raised \/ u = "none" THEN Invoked(TRUE, "", 0, 0)
    ELSE IF u = "reported"
    THEN Invoked(FALSE, o.text, PromptTokens, CompletionTokens)
    ELSE Invoked(FALSE, o.text, 0, 0)

AddTokensOnAccept(total, r, tokens, accepted) ==
    IF accepted THEN total + tokens ELSE total
\* Lines 219-221 (326-329, 426-429): the tokens of a call that returned are
\* added to the stage total before the response is parsed.
AddTokens(total, r, tokens, accepted) ==
    IF r.raised THEN total ELSE total + tokens

\* json.loads(result) of a unit whose call returned; the error also when the
\* call itself raised (both end in the loop's except clause).
UnitParsed(o) == IF o.raised THEN ParseError ELSE Loads(o.text)

\* Lines 224-229: the value parsed, `"question" in value` did not raise and
\* is true.
HasQuestionAnyParsed(v) == v # ParseError
HasQuestion(v) == v # ParseError /\ ~InRaises(v) /\ In("question", v)

\* value.get(key, default) of a dict: the first member with that key.
HasKey(v, key) == \E i \in 1..Len(v.items) : v.items[i].key = key
Get(v, key, default) ==
    IF HasKey(v, key)
    THEN v.items[CHOOSE i \in 1..Len(v.items) : v.items[i].key = key]
    ELSE default

\* Python truth value of a scalar.
Truthy(m) ==
    IF m.type = "bool" THEN m.text = "true"
    ELSE IF m.type = "string" THEN m.text # ""
    ELSE IF m.type = "number" THEN m.text # "0"
    ELSE FALSE

FalseDefault == Member("well_posed", "bool", "false")

IsWellPosedAnyVerdict(v) == v # ParseError /\ v.kind = "object"
\* Lines 432-440: the response parsed to a dict (.get exists) and its
\* "well_posed", False when absent, is true in Python's sense.
IsWellPosed(v) ==
    v # ParseError /\ v.kind = "object" /\ Truthy(Get(v, "well_posed", FalseDefault))

\* `continue` and the end of the loop body: on to the next unit, whether the
\* unit was accepted, skipped or raised.
NextUnitAbortOnFailure(i, n, failed) == IF failed THEN n + 1 ELSE i + 1
NextUnitRetry(i, n, failed) == IF failed THEN i ELSE i + 1
NextUnit(i, n, failed) == i + 1

SleepsBeforeEvery(s, i) == IF s \in {2, 3} THEN <<i>> ELSE <<>>
\* Lines 319-321 and 419-421: `if idx > 1: time.sleep(1)` at the head of the
\* loop body of Perturbation and Validation; the other two stages have no
\* sleep.  The units slept before, for unit i of stage s.
Sleeps(s, i) == IF s \in {2, 3} /\ i > 1 THEN <<i>> ELSE <<>>

\* accepted.append(item)
AcceptPrepend(list, item) == <<item>> \o list
Accept(list, item) == Append(list, item)

\* main(): `if not accepted: ... return`, else on to the next stage.
AfterStageAlways(accepted, next) == next
AfterStage(accepted, next) == IF accepted = <<>> THEN "aborted" ELSE next

\* What run_validation_stage persists and returns for an accepted unit.
ValidatedRecordVerdict(question, validation_result) == validation_result
ValidatedRecord(question, validation_result) == question

\* Lines 529-554 leave FINAL_TEX_FILE alone: the file when the service is
\* about to be invoked.
TexAtStartReset(t) == NoTex
TexAtStart(t) == t

\* How the try block of run_extraction_stage (lines 556-590) ends, for a
\* parsed response and an open() that succeeds (wr) or raises.
\*   "exception":    the except clause (line 586) before the file is opened:
\*                   the call or json.loads raised, `in` raised TypeError on a
\*                   number, indexing a list by a string raised TypeError
\*   "nofield":      'latex_document' not in response_obj, line 564
\*   "open_failed":  open(FINAL_TEX_FILE, "w") raised
\*   "write_failed": f.write(latex_output) raised on a value that is no string
\*   "written":      the document was written, line 584
ExtractEnd(response_obj, wr) ==
    IF response_obj = ParseError \/ InRaises(response_obj) THEN "exception"
    ELSE IF ~In("latex_document", response_obj) THEN "nofield"
    ELSE IF response_obj.kind # "object" THEN "exception"
    ELSE IF ~wr THEN "open_failed"
    ELSE IF Get(response_obj, "latex_document", FalseDefault).type # "string"
    THEN "write_failed"
    ELSE "written"

\* FINAL_TEX_FILE after the try block: open(..., "w") empties the file, the
\* write fills it.
WrittenTex(text) == [exists |-> TRUE, text |-> text, run |-> "current"]
ExtractedTexBlankOnMissing(t, end, latex_output) ==
    IF end = "written" THEN WrittenTex(latex_output)
    ELSE IF end \in {"write_failed", "nofield"} THEN WrittenTex("")
    ELSE t
ExtractedTex(t, end, latex_output) ==
    IF end = "written" THEN WrittenTex(latex_output)
    ELSE IF end = "write_failed" THEN WrittenTex("")
    ELSE t

\* The message run_extraction_stage prints for an end.
ExtractMessage(end) ==
    IF end = "written" THEN {}
    ELSE IF end = "nofield" THEN {"nofield"}
    ELSE {"exception"}

ExtractReturnAlways(end, r) == <<r.input_tokens, r.output_tokens>>
\* What run_extraction_stage returns for an end: the token counts of the
\* call at lines 566 and 584, (0, 0) from the except clause at line 590.
ExtractReturn(end, r) ==
    IF end \in {"nofield", "written"}
    THEN <<r.input_tokens, r.output_tokens>>
    ELSE <<0, 0>>

(***************************************************************************)
(* The operator.  A line typed at input() is [pad, body]: the text with    *)
(* or without blanks around it.                                            *)
(***************************************************************************)
Typed(pad, body) == [pad |-> pad, body |-> body]
\* str.strip() and str.lower() on the lines below.
Strip(line) == line.body
Lower(s) == IF s = "Y" THEN "y" ELSE IF s = "N" THEN "n" ELSE s

\* What the operator may type for a special prompt and for the y/n question.
PromptLines == {Typed(FALSE, ""), Typed(TRUE, ""), Typed(TRUE, "hint")}
AnswerLines == {Typed(FALSE, "y"), Typed(TRUE, "Y"), Typed(FALSE, "n"),
                Typed(FALSE, "")}

\* ask_special_prompt(stage_name), lines 96-109: whether input() is called,
\* and what is returned.
Asked(a, r) == [asked |-> a, response |-> r]
ask_special_prompt_always(non_interactive, line) == Asked(TRUE, Strip(line))
ask_special_prompt(non_interactive, line) ==
    IF non_interactive THEN Asked(FALSE, "")
    ELSE Asked(TRUE, Strip(line))

\* main(), lines 610-618: the clear-images decision.
ClearDecision(non_interactive, nonempty, line) ==
    IF ~nonempty THEN Asked(FALSE, "None")
    ELSE IF non_interactive THEN Asked(FALSE, "False")
    ELSE Asked(TRUE, IF Lower(Strip(line)) = "y" THEN "True" ELSE "False")

\* A request for operator input: which prompt was shown, and the answer the
\* program took from it.
Request(name, a) == [prompt |-> name, answer |-> a.response]
Requested(list, name, a) ==
    IF a.asked THEN Append(list, Request(name, a)) ELSE list

\* main(), lines 636-645: IMG_DIR after the clean-up.  The loop unlinks every
\* file; an error (ok = FALSE, taken at the first file) is caught and printed.
ClearedDirAlways(files, decision, ok) == IF ok THEN {} ELSE files
ClearedDir(files, decision, ok) ==
    IF decision = "True" /\ ok THEN {} ELSE files

\* Lines 626, 654, 670, 686 and 217, 325, 425, 558: the instruction main()
\* passes to the runner of stage s and the runner to the Model Invoker;
\* validate_question takes none.
PassedPromptFirst(s, p1, p2, p4) == IF s = 3 THEN {} ELSE {p1}
PassedPrompt(s, p1, p2, p4) ==
    IF s = 1 THEN {p1} ELSE IF s = 2 THEN {p2} ELSE IF s = 4 THEN {p4} ELSE {}

(***************************************************************************)
(* Token usage and cost.  The rates are 1.25 and 10.00 dollars per         *)
(* 1,000,000 tokens: 125 and 1000 units of 1 / (100 * 1,000,000) dollar    *)
(* per token.                                                              *)
(***************************************************************************)
Million == 1000000
INPUT_TOKEN_COST == 125
OUTPUT_TOKEN_COST == 1000

print_cost_report_rates_swapped(stage_name, input_tokens, output_tokens) ==
    LET input_cost == input_tokens * OUTPUT_TOKEN_COST
        output_cost == output_tokens * INPUT_TOKEN_COST
        total_cost == input_cost + output_cost
    IN [stage_name |-> stage_name,
        input_tokens |-> input_tokens,
        output_tokens |-> output_tokens,
        input_cost |-> input_cost,
        output_cost |-> output_cost,
        total_cost |-> total_cost]
\* print_cost_report, lines 112-126: what it prints.
print_cost_report(stage_name, input_tokens, output_tokens) ==
    LET input_cost == input_tokens * INPUT_TOKEN_COST
        output_cost == output_tokens * OUTPUT_TOKEN_COST
        total_cost == input_cost + output_cost
    IN [stage_name |-> stage_name,
        input_tokens |-> input_tokens,
        output_tokens |-> output_tokens,
        input_cost |-> input_cost,
        output_cost |-> output_cost,
        total_cost |-> total_cost]
NoReport == print_cost_report("", 0, 0)

StageKeyReused(s) ==
    IF s = 1 THEN "Transcription"
    ELSE IF s = 2 THEN "Perturbation"
    ELSE IF s = 3 THEN "Perturbation"
    ELSE "Extraction"
\* The keys of stage_costs, lines 629, 657, 673, 689.
StageKey(s) ==
    IF s = 1 THEN "Transcription"
    ELSE IF s = 2 THEN "Perturbation"
    ELSE IF s = 3 THEN "Validation"
    ELSE "Extraction"
StageKeys == {StageKey(s) : s \in 1..4}

\* stage_costs[key] = (input_tokens, output_tokens)
SetItem(d, key, value) == (key :> value) @@ d

RECURSIVE SumOver(_, _, _)
\* sum(tokens[i] for tokens in d.values())
SumOver(d, keys, i) ==
    IF keys = {} THEN 0
    ELSE LET k == CHOOSE x \in keys : TRUE
         IN d[k][i] + SumOver(d, keys \ {k}, i)

\* main(), lines 697-731: the totals of the final summary and the cost of
\* each stage.
FinalTotals(costs) ==
    LET total_in == SumOver(costs, DOMAIN costs, 1)
        total_out == SumOver(costs, DOMAIN costs, 2)
    IN [total_input_tokens |-> total_in,
        total_output_tokens |-> total_out,
        input_cost |-> total_in * INPUT_TOKEN_COST,
        output_cost |-> total_out * OUTPUT_TOKEN_COST,
        total_cost |-> total_in * INPUT_TOKEN_COST + total_out * OUTPUT_TOKEN_COST,
        stage_cost |-> [k \in DOMAIN costs |->
                          costs[k][1] * INPUT_TOKEN_COST
                          + costs[k][2] * OUTPUT_TOKEN_COST]]
NoSummary == FinalTotals(<<>>)

(***************************************************************************)
(* Bookkeeping: the kind of a unit's outcome, from what the environment    *)
(* did, in the words of the specification.                                 *)
(***************************************************************************)
QuestionKind(o, wr) ==
    IF o.raised THEN "raise"
    ELSE IF Loads(o.text) = ParseError THEN "noparse"
    ELSE IF ~(Loads(o.text).kind \in {"object", "array"}
              /\ In("question", Loads(o.text))) THEN "nofield"
    ELSE IF ~wr THEN "nowrite"
    ELSE "fine"

VerdictKind(o, wr) ==
    IF o.raised THEN "raise"
    ELSE IF Loads(o.text) = ParseError THEN "noparse"
    ELSE IF Loads(o.text).kind # "object" THEN "nofield"
    ELSE IF ~HasKey(Loads(o.text), "well_posed") THEN "rejected"
    ELSE IF ~Truthy(Get(Loads(o.text), "well_posed", FalseDefault)) THEN "rejected"
    ELSE IF ~wr THEN "nowrite"
    ELSE "fine"

\* The kind of the Extraction unit's outcome.
LatexKind(o, wr) ==
    IF o.raised THEN "raise"
    ELSE IF Loads(o.text) = ParseError THEN "noparse"
    ELSE IF ~HasKey(Loads(o.text), "latex_document") THEN "nofield"
    ELSE IF Get(Loads(o.text), "latex_document", FalseDefault).type # "string"
    THEN "notext"
    ELSE IF ~wr THEN "nowrite"
    ELSE "fine"

\* A response whose `usage` holds None makes the Model Invoker raise: the
\* unit is "nousage" when that is all that kept it from being fine.
UsageKind(o, u, k) ==
    IF ~o.raised /\ u = "none"
    THEN IF k = "fine" THEN "nousage" ELSE "raise"
    ELSE k

\* A unit's entry in hist: its index, whether its outcome was fine or one of
\* the failures, for a fine one the text the service returned, and the token
\* counts the Model Invoker handed back (0 when it raised).
Unit(i, k, t, r) ==
    [unit |-> i, kind |-> k, text |-> t,
     input_tokens |-> r.input_tokens, output_tokens |-> r.output_tokens]
Noted(i, o, r, k) ==
    IF k = "fine" THEN Unit(i, "fine", o.text, r)
    ELSE IF k = "nousage" THEN Unit(i, "nousage", "", r)
    ELSE Unit(i, "failed", "", r)

(***************************************************************************)
(* Initial state: main() has been called.                                  *)
(***************************************************************************)
\* clear.py is not run, and no prompt is rendered on its own.
NoHousekeeping ==
    /\ output_files = <<>>
    /\ img_dir = [exists |-> FALSE, files |-> {}, dirs |-> {}]
    /\ printed = <<>>
    /\ runs = 0
    /\ clears = 0
NoRendering ==
    /\ prompt_text = <<>>
    /\ special_prompt = Typed(FALSE, "")
    /\ prompt_with_special = <<>>

\* What the program holds when main() starts, whatever the environment.
Boot ==
    /\ pc = "start"
    /\ image_files = <<>>
    /\ idx = 0
    /\ transcribed_questions = <<>>
    /\ perturbed_questions = <<>>
    /\ validated_questions = <<>>
    /\ diag = {}
    /\ hist = <<>>
    /\ entered = {}
    /\ called = {}
    /\ clear_img = "None"
    /\ special_prompt_1 = ""
    /\ special_prompt_2 = ""
    /\ special_prompt_4 = ""
    /\ total_input_tokens = 0
    /\ total_output_tokens = 0
    /\ stage_tokens = <<>>
    /\ stage_costs = <<>>
    /\ report = NoReport
    /\ summary = NoSummary
    /\ inputs = <<>>
    /\ injected = [s \in 1..4 |-> {}]
    /\ calls = <<>>
    /\ sleeps = <<>>
    /\ NoHousekeeping
    /\ NoRendering

\* A run with --force on a directory of up to MaxImages images, the service
\* answering with any text.
Init ==
    /\ prior \in BOOLEAN
    /\ imgFiles \in {1..n : n \in 0..MaxImages}
    /\ otherFiles = {}
    /\ log = [s \in 1..3 |-> IF prior THEN PriorLog ELSE NoFile]
    /\ tex = IF prior THEN PriorTex ELSE NoTex
    /\ service = "content"
    /\ NON_INTERACTIVE = TRUE
    /\ Boot

(***************************************************************************)
(* main() before stage 1.                                                  *)
(***************************************************************************)
\* Lines 597-624: the clear-images decision and the special prompt of
\* Transcription.
MainStart ==
    /\ pc = "start"
    /\ pc' = "stage1"
    /\ \E answer \in AnswerLines, line \in PromptLines :
         LET c == ClearDecision(NON_INTERACTIVE, imgFiles # {} \/ otherFiles # {}, answer)
             a == ask_special_prompt(NON_INTERACTIVE, line)
         IN /\ clear_img' = c.response
            /\ special_prompt_1' = a.response
            /\ inputs' = Requested(Requested(inputs, "clear", c), "TRANSCRIPTION", a)
    /\ UNCHANGED <<prior, imgFiles, log, tex, image_files, idx,
                   transcribed_questions, perturbed_questions,
                   validated_questions, diag, hist, entered, called>>
    /\ UNCHANGED <<service, otherFiles, NON_INTERACTIVE, special_prompt_2,
                   special_prompt_4, injected, calls>>
    /\ UNCHANGED <<totalVars, usageVars>>
    /\ UNCHANGED <<sleeps, houseVars, renderVars>>

(***************************************************************************)
(* Stage 1: run_transcription_stage and main()'s check of its result.      *)
(***************************************************************************)
\* Lines 185-210: load the prompt and the template (load_text_file raises,
\* uncaught, when one is not on disk: loaded = FALSE), list the images,
\* return at once when there are none, else remove the log and start the
\* loop.
TranscriptionStart ==
    /\ pc = "stage1"
    /\ entered' = entered \cup {1}
    /\ hist' = <<>>
    /\ calls' = <<>>
    /\ \E loaded \in BOOLEAN :
       IF ~loaded
       THEN /\ pc' = "crashed"
            /\ UNCHANGED <<log, image_files, idx, transcribed_questions>>
            /\ UNCHANGED <<totalVars, stage_tokens>>
       ELSE /\ image_files' = SortedSeq(imgFiles)
            /\ IF image_files' = <<>>
               THEN /\ pc' = "ret1"
                    /\ stage_tokens' = SetItem(stage_tokens, 1, <<0, 0>>)
                    /\ UNCHANGED <<log, idx, transcribed_questions>>
                    /\ UNCHANGED totalVars
               ELSE /\ pc' = "transcribing"
                    /\ log' = [log EXCEPT ![1] = Unlink(@)]
                    /\ transcribed_questions' = <<>>
                    /\ total_input_tokens' = 0
                    /\ total_output_tokens' = 0
                    /\ idx' = 1
                    /\ UNCHANGED stage_tokens
    /\ UNCHANGED <<prior, imgFiles, tex, perturbed_questions,
                   validated_questions, diag, called>>
    /\ UNCHANGED <<service, otherFiles, operatorVars, injected>>
    /\ UNCHANGED <<stage_costs, report, summary>>
    /\ sleeps' = <<>>
    /\ UNCHANGED <<houseVars, renderVars>>

\* Lines 212-240: one iteration of the loop.
TranscribeUnit ==
    /\ pc = "transcribing"
    /\ idx <= Len(image_files)
    /\ \E o \in Answers(service, TranscribeOutcomes), wr \in Writes(service) :
       \E u \in Usages(service, o) :
         LET r == ModelInvoker(o, u)
             question_json == UnitParsed(r)
             ok == HasQuestion(question_json) /\ wr
         IN /\ total_input_tokens' =
                 AddTokens(total_input_tokens, r, r.input_tokens, ok)
            /\ total_output_tokens' =
                 AddTokens(total_output_tokens, r, r.output_tokens, ok)
            /\ log' = IF ok
                      THEN [log EXCEPT ![1] =
                              AppendTo(@, Dumps(question_json) \o "\n", idx)]
                      ELSE log
            /\ transcribed_questions' =
                 IF ok THEN Accept(transcribed_questions, question_json)
                 ELSE transcribed_questions
            /\ idx' = NextUnit(idx, Len(image_files), ~ok)
            /\ hist' = Append(hist, Noted(idx, o, r, UsageKind(o, u, QuestionKind(o, wr))))
    /\ called' = called \cup {1}
    /\ calls' = Append(calls, idx)
    /\ injected' = [injected EXCEPT ![1] =
                      @ \cup PassedPrompt(1, special_prompt_1, special_prompt_2,
                                          special_prompt_4)]
    /\ UNCHANGED <<pc, prior, imgFiles, tex, image_files,
                   perturbed_questions, validated_questions, diag, entered>>
    /\ UNCHANGED <<service, otherFiles, operatorVars, usageVars>>
    /\ sleeps' = sleeps \o Sleeps(1, idx)
    /\ UNCHANGED <<houseVars, renderVars>>

\* Lines 242-245: the loop is over, the runner returns its list and totals.
TranscriptionReturn ==
    /\ pc = "transcribing"
    /\ idx > Len(image_files)
    /\ pc' = "ret1"
    /\ stage_tokens' =
         SetItem(stage_tokens, 1, <<total_input_tokens, total_output_tokens>>)
    /\ UNCHANGED <<prior, imgFiles, log, tex, image_files, idx,
                   transcribed_questions, perturbed_questions,
                   validated_questions, diag, hist, entered, called>>
    /\ UNCHANGED <<service, otherFiles, operatorVars, totalVars, injected, calls>>
    /\ UNCHANGED <<stage_costs, report, summary>>
    /\ UNCHANGED <<sleeps, houseVars, renderVars>>

\* main(), lines 626-651: the cost report, the abort check, the clean-up of
\* the image directory and the special prompt of Perturbation.
MainAfterTranscription ==
    /\ pc = "ret1"
    /\ report' = print_cost_report("TRANSCRIPTION", stage_tokens[1][1], stage_tokens[1][2])
    /\ stage_costs' = SetItem(stage_costs, StageKey(1), stage_tokens[1])
    /\ pc' = AfterStage(transcribed_questions, "stage2")
    /\ IF pc' = "aborted"
       THEN UNCHANGED <<imgFiles, otherFiles, special_prompt_2, inputs>>
       ELSE \E ok \in BOOLEAN, line \in PromptLines :
              LET a == ask_special_prompt(NON_INTERACTIVE, line)
              IN /\ imgFiles' = ClearedDir(imgFiles, clear_img, ok)
                 /\ otherFiles' = ClearedDir(otherFiles, clear_img, ok)
                 /\ special_prompt_2' = a.response
                 /\ inputs' = Requested(inputs, "PERTURBATION", a)
    /\ UNCHANGED <<prior, log, tex, image_files, idx,
                   transcribed_questions, perturbed_questions,
                   validated_questions, diag, hist, entered, called>>
    /\ UNCHANGED <<service, NON_INTERACTIVE, clear_img, special_prompt_1,
                   special_prompt_4, totalVars, stage_tokens, summary,
                   injected, calls>>
    /\ UNCHANGED <<sleeps, houseVars, renderVars>>

(***************************************************************************)
(* Stage 2: run_perturbation_stage and main()'s check of its result.       *)
(***************************************************************************)
\* Lines 293-314: return at once on an empty input, load the prompt (an
\* uncaught error when it is missing), remove the log, start the loop.
PerturbationStart ==
    /\ pc = "stage2"
    /\ entered' = entered \cup {2}
    /\ hist' = <<>>
    /\ calls' = <<>>
    /\ \E loaded \in BOOLEAN :
       IF transcribed_questions = <<>>
       THEN /\ pc' = "ret2"
            /\ stage_tokens' = SetItem(stage_tokens, 2, <<0, 0>>)
            /\ UNCHANGED <<log, idx, perturbed_questions>>
            /\ UNCHANGED totalVars
       ELSE IF ~loaded
       THEN /\ pc' = "crashed"
            /\ UNCHANGED <<log, idx, perturbed_questions>>
            /\ UNCHANGED <<totalVars, stage_tokens>>
       ELSE /\ pc' = "perturbing"
            /\ log' = [log EXCEPT ![2] = Unlink(@)]
            /\ perturbed_questions' = <<>>
            /\ total_input_tokens' = 0
            /\ total_output_tokens' = 0
            /\ idx' = 1
            /\ UNCHANGED stage_tokens
    /\ UNCHANGED <<prior, imgFiles, tex, image_files,
                   transcribed_questions, validated_questions, diag, called>>
    /\ UNCHANGED <<service, otherFiles, operatorVars, injected>>
    /\ UNCHANGED <<stage_costs, report, summary>>
    /\ sleeps' = <<>>
    /\ UNCHANGED <<houseVars, renderVars>>

\* Lines 316-348: one iteration of the loop.
PerturbUnit ==
    /\ pc = "perturbing"
    /\ idx <= Len(transcribed_questions)
    /\ \E o \in Answers(service, TranscribeOutcomes), wr \in Writes(service) :
       \E u \in Usages(service, o) :
         LET r == ModelInvoker(o, u)
             perturbed_json == UnitParsed(r)
             ok == HasQuestion(perturbed_json) /\ wr
         IN /\ total_input_tokens' =
                 AddTokens(total_input_tokens, r, r.input_tokens, ok)
            /\ total_output_tokens' =
                 AddTokens(total_output_tokens, r, r.output_tokens, ok)
            /\ log' = IF ok
                      THEN [log EXCEPT ![2] =
                              AppendTo(@, Dumps(perturbed_json) \o "\n", idx)]
                      ELSE log
            /\ perturbed_questions' =
                 IF ok THEN Accept(perturbed_questions, perturbed_json)
                 ELSE perturbed_questions
            /\ idx' = NextUnit(idx, Len(transcribed_questions), ~ok)
            /\ hist' = Append(hist, Noted(idx, o, r, UsageKind(o, u, QuestionKind(o, wr))))
    /\ called' = called \cup {2}
    /\ calls' = Append(calls, idx)
    /\ injected' = [injected EXCEPT ![2] =
                      @ \cup PassedPrompt(2, special_prompt_1, special_prompt_2,
                                          special_prompt_4)]
    /\ UNCHANGED <<pc, prior, imgFiles, tex, image_files,
                   transcribed_questions, validated_questions, diag, entered>>
    /\ UNCHANGED <<service, otherFiles, operatorVars, usageVars>>
    /\ sleeps' = sleeps \o Sleeps(2, idx)
    /\ UNCHANGED <<houseVars, renderVars>>

\* Lines 350-353.
PerturbationReturn ==
    /\ pc = "perturbing"
    /\ idx > Len(transcribed_questions)
    /\ pc' = "ret2"
    /\ stage_tokens' =
         SetItem(stage_tokens, 2, <<total_input_tokens, total_output_tokens>>)
    /\ UNCHANGED <<prior, imgFiles, log, tex, image_files, idx,
                   transcribed_questions, perturbed_questions,
                   validated_questions, diag, hist, entered, called>>
    /\ UNCHANGED <<service, otherFiles, operatorVars, totalVars, injected, calls>>
    /\ UNCHANGED <<stage_costs, report, summary>>
    /\ UNCHANGED <<sleeps, houseVars, renderVars>>

\* main(), lines 654-667: the cost report and the abort check; no special
\* prompt is asked for Validation.
MainAfterPerturbation ==
    /\ pc = "ret2"
    /\ report' = print_cost_report("PERTURBATION", stage_tokens[2][1], stage_tokens[2][2])
    /\ stage_costs' = SetItem(stage_costs, StageKey(2), stage_tokens[2])
    /\ pc' = AfterStage(perturbed_questions, "stage3")
    /\ UNCHANGED <<prior, imgFiles, log, tex, image_files, idx,
                   transcribed_questions, perturbed_questions,
                   validated_questions, diag, hist, entered, called>>
    /\ UNCHANGED <<service, otherFiles, operatorVars, totalVars, stage_tokens,
                   summary, injected, calls>>
    /\ UNCHANGED <<sleeps, houseVars, renderVars>>

(***************************************************************************)
(* Stage 3: run_validation_stage and main()'s check of its result.         *)
(***************************************************************************)
\* Lines 393-414.
ValidationStart ==
    /\ pc = "stage3"
    /\ entered' = entered \cup {3}
    /\ hist' = <<>>
    /\ calls' = <<>>
    /\ \E loaded \in BOOLEAN :
       IF perturbed_questions = <<>>
       THEN /\ pc' = "ret3"
            /\ stage_tokens' = SetItem(stage_tokens, 3, <<0, 0>>)
            /\ UNCHANGED <<log, idx, validated_questions>>
            /\ UNCHANGED totalVars
       ELSE IF ~loaded
       THEN /\ pc' = "crashed"
            /\ UNCHANGED <<log, idx, validated_questions>>
            /\ UNCHANGED <<totalVars, stage_tokens>>
       ELSE /\ pc' = "validating"
            /\ log' = [log EXCEPT ![3] = Unlink(@)]
            /\ validated_questions' = <<>>
            /\ total_input_tokens' = 0
            /\ total_output_tokens' = 0
            /\ idx' = 1
            /\ UNCHANGED stage_tokens
    /\ UNCHANGED <<prior, imgFiles, tex, image_files,
                   transcribed_questions, perturbed_questions, diag, called>>
    /\ UNCHANGED <<service, otherFiles, operatorVars, injected>>
    /\ UNCHANGED <<stage_costs, report, summary>>
    /\ sleeps' = <<>>
    /\ UNCHANGED <<houseVars, renderVars>>

\* Lines 416-453: one iteration of the loop.
ValidateUnit ==
    /\ pc = "validating"
    /\ idx <= Len(perturbed_questions)
    /\ \E o \in Answers(service, ValidateOutcomes), wr \in Writes(service) :
       \E u \in Usages(service, o) :
         LET r == ModelInvoker(o, u)
             question == perturbed_questions[idx]
             validation_result == UnitParsed(r)
             ok == IsWellPosed(validation_result) /\ wr
             record == ValidatedRecord(question, validation_result)
         IN /\ total_input_tokens' =
                 AddTokens(total_input_tokens, r, r.input_tokens, ok)
            /\ total_output_tokens' =
                 AddTokens(total_output_tokens, r, r.output_tokens, ok)
            /\ log' = IF ok
                      THEN [log EXCEPT ![3] =
                              AppendTo(@, Dumps(record) \o "\n", idx)]
                      ELSE log
            /\ validated_questions' =
                 IF ok THEN Accept(validated_questions, record)
                 ELSE validated_questions
            /\ idx' = NextUnit(idx, Len(perturbed_questions), ~ok)
            /\ hist' = Append(hist, Noted(idx, o, r, UsageKind(o, u, VerdictKind(o, wr))))
    /\ called' = called \cup {3}
    /\ calls' = Append(calls, idx)
    /\ injected' = [injected EXCEPT ![3] =
                      @ \cup PassedPrompt(3, special_prompt_1, special_prompt_2,
                                          special_prompt_4)]
    /\ UNCHANGED <<pc, prior, imgFiles, tex, image_files,
                   transcribed_questions, perturbed_questions, diag, entered>>
    /\ UNCHANGED <<service, otherFiles, operatorVars, usageVars>>
    /\ sleeps' = sleeps \o Sleeps(3, idx)
    /\ UNCHANGED <<houseVars, renderVars>>

\* Lines 455-458.
ValidationReturn ==
    /\ pc = "validating"
    /\ idx > Len(perturbed_questions)
    /\ pc' = "ret3"
    /\ stage_tokens' =
         SetItem(stage_tokens, 3, <<total_input_tokens, total_output_tokens>>)
    /\ UNCHANGED <<prior, imgFiles, log, tex, image_files, idx,
                   transcribed_questions, perturbed_questions,
                   validated_questions, diag, hist, entered, called>>
    /\ UNCHANGED <<service, otherFiles, operatorVars, totalVars, injected, calls>>
    /\ UNCHANGED <<stage_costs, report, summary>>
    /\ UNCHANGED <<sleeps, houseVars, renderVars>>

\* main(), lines 670-683: the cost report, the abort check and the special
\* prompt of Extraction.
MainAfterValidation ==
    /\ pc = "ret3"
    /\ report' = print_cost_report("VALIDATION", stage_tokens[3][1], stage_tokens[3][2])
    /\ stage_costs' = SetItem(stage_costs, StageKey(3), stage_tokens[3])
    /\ pc' = AfterStage(validated_questions, "stage4")
    /\ IF pc' = "aborted"
       THEN UNCHANGED <<special_prompt_4, inputs>>
       ELSE \E line \in PromptLines :
              LET a == ask_special_prompt(NON_INTERACTIVE, line)
              IN /\ special_prompt_4' = a.response
                 /\ inputs' = Requested(inputs, "LaTeX EXTRACTION", a)
    /\ UNCHANGED <<prior, imgFiles, log, tex, image_files, idx,
                   transcribed_questions, perturbed_questions,
                   validated_questions, diag, hist, entered, called>>
    /\ UNCHANGED <<service, otherFiles, NON_INTERACTIVE, clear_img,
                   special_prompt_1, special_prompt_2, totalVars, stage_tokens,
                   summary, injected, calls>>
    /\ UNCHANGED <<sleeps, houseVars, renderVars>>

(***************************************************************************)
(* Stage 4: run_extraction_stage and the end of main().                    *)
(***************************************************************************)
\* Lines 529-554: return at once on an empty input; load the prompt (an
\* uncaught error when it is missing); return with an error message when the
\* examples directory or every example is missing.
ExtractionStart ==
    /\ pc = "stage4"
    /\ entered' = entered \cup {4}
    /\ hist' = <<>>
    /\ calls' = <<>>
    /\ tex' = TexAtStart(tex)
    /\ \E found \in {"all", "no_prompt", "no_examples_dir", "no_examples"} :
         IF validated_questions = <<>>
         THEN /\ pc' = "ret4" /\ diag' = {"no_questions"}
              /\ stage_tokens' = SetItem(stage_tokens, 4, <<0, 0>>)
         ELSE IF found = "no_prompt"
         THEN /\ pc' = "crashed" /\ diag' = {}
              /\ UNCHANGED stage_tokens
         ELSE IF found # "all"
         THEN /\ pc' = "ret4" /\ diag' = {found}
              /\ stage_tokens' = SetItem(stage_tokens, 4, <<0, 0>>)
         ELSE /\ pc' = "extracting" /\ diag' = {}
              /\ UNCHANGED stage_tokens
    /\ UNCHANGED <<prior, imgFiles, log, image_files, idx,
                   transcribed_questions, perturbed_questions,
                   validated_questions, called>>
    /\ UNCHANGED <<service, otherFiles, operatorVars, totalVars, injected>>
    /\ UNCHANGED <<stage_costs, report, summary>>
    /\ sleeps' = <<>>
    /\ UNCHANGED <<houseVars, renderVars>>

\* Lines 556-590: the one service call and what follows it.
Extract ==
    /\ pc = "extracting"
    /\ \E o \in Answers(service, ExtractOutcomes), wr \in Writes(service) :
       \E u \in Usages(service, o) :
         LET r == ModelInvoker(o, u)
             response_obj == UnitParsed(r)
             end == ExtractEnd(response_obj, wr)
             latex_output == Get(response_obj, "latex_document", FalseDefault).text
         IN /\ tex' = ExtractedTex(tex, end, latex_output)
            /\ diag' = ExtractMessage(end)
            /\ stage_tokens' = SetItem(stage_tokens, 4, ExtractReturn(end, r))
            /\ hist' = <<Unit(1, UsageKind(o, u, LatexKind(o, wr)), "", r)>>
    /\ called' = called \cup {4}
    /\ calls' = Append(calls, 1)
    /\ injected' = [injected EXCEPT ![4] =
                      @ \cup PassedPrompt(4, special_prompt_1, special_prompt_2,
                                          special_prompt_4)]
    /\ pc' = "ret4"
    /\ UNCHANGED <<prior, imgFiles, log, image_files, idx,
                   transcribed_questions, perturbed_questions,
                   validated_questions, entered>>
    /\ UNCHANGED <<service, otherFiles, operatorVars, totalVars>>
    /\ UNCHANGED <<stage_costs, report, summary>>
    /\ sleeps' = sleeps \o Sleeps(4, 1)
    /\ UNCHANGED <<houseVars, renderVars>>

\* main(), lines 686-739: the cost report, the final summary and
\* "Pipeline complete!", whatever run_extraction_stage returned.
FinalSummary ==
    /\ pc = "ret4"
    /\ pc' = "done"
    /\ report' = print_cost_report("LaTeX EXTRACTION", stage_tokens[4][1], stage_tokens[4][2])
    /\ stage_costs' = SetItem(stage_costs, StageKey(4), stage_tokens[4])
    /\ summary' = FinalTotals(stage_costs')
    /\ UNCHANGED <<prior, imgFiles, log, tex, image_files, idx,
                   transcribed_questions, perturbed_questions,
                   validated_questions, diag, hist, entered, called>>
    /\ UNCHANGED <<service, otherFiles, operatorVars, totalVars, stage_tokens,
                   injected, calls>>
    /\ UNCHANGED <<sleeps, houseVars, renderVars>>

Next ==
    \/ MainStart
    \/ TranscriptionStart
    \/ TranscribeUnit
    \/ TranscriptionReturn
    \/ MainAfterTranscription
    \/ PerturbationStart
    \/ PerturbUnit
    \/ PerturbationReturn
    \/ MainAfterPerturbation
    \/ ValidationStart
    \/ ValidateUnit
    \/ ValidationReturn
    \/ MainAfterValidation
    \/ ExtractionStart
    \/ Extract
    \/ FinalSummary

Spec == Init /\ [][Next]_vars

\* The pipeline on a directory of MaxImages + 1 images, the output files
\* holding content of a prior run.
InitThree ==
    /\ prior = TRUE
    /\ imgFiles = 1..(MaxImages + 1)
    /\ otherFiles = {}
    /\ log = [s \in 1..3 |-> PriorLog]
    /\ tex = PriorTex
    /\ service = "content"
    /\ NON_INTERACTIVE = TRUE
    /\ Boot

SpecThree == InitThree /\ [][Next]_vars

\* A run with --force in which the responses of the service carry token
\* counts, None, or no usage at all.
InitUsage ==
    /\ prior = FALSE
    /\ imgFiles \in {1..n : n \in 0..MaxImages}
    /\ otherFiles = {}
    /\ log = [s \in 1..3 |-> NoFile]
    /\ tex = NoTex
    /\ service = "usage"
    /\ NON_INTERACTIVE = TRUE
    /\ Boot

SpecUsage == InitUsage /\ [][Next]_vars

\* A run with or without --force, the operator typing at every request; the
\* image directory may hold a file that is no image.
InitOperator ==
    /\ prior = FALSE
    /\ imgFiles \in {1..n : n \in 0..MaxImages}
    /\ otherFiles \in {{}, {"notes.txt"}}
    /\ log = [s \in 1..3 |-> NoFile]
    /\ tex = NoTex
    /\ service = "plain"
    /\ NON_INTERACTIVE \in BOOLEAN
    /\ Boot

SpecOperator == InitOperator /\ [][Next]_vars

\* Largest token count print_cost_report is applied to, besides a million.
MaxTokens == 9
TokenCounts == 0..MaxTokens \cup {Million}

\* print_cost_report on its own: any two token counts.
InitCost ==
    /\ prior = FALSE
    /\ imgFiles = {}
    /\ otherFiles = {}
    /\ log = [s \in 1..3 |-> NoFile]
    /\ tex = NoTex
    /\ service = "plain"
    /\ NON_INTERACTIVE = TRUE
    /\ image_files = <<>>
    /\ idx = 0
    /\ transcribed_questions = <<>>
    /\ perturbed_questions = <<>>
    /\ validated_questions = <<>>
    /\ diag = {}
    /\ hist = <<>>
    /\ entered = {}
    /\ called = {}
    /\ clear_img = "None"
    /\ special_prompt_1 = ""
    /\ special_prompt_2 = ""
    /\ special_prompt_4 = ""
    /\ stage_tokens = <<>>
    /\ stage_costs = <<>>
    /\ report = NoReport
    /\ summary = NoSummary
    /\ inputs = <<>>
    /\ injected = [s \in 1..4 |-> {}]
    /\ calls = <<>>
    /\ sleeps = <<>>
    /\ NoHousekeeping
    /\ NoRendering
    /\ pc = "cost"
    /\ total_input_tokens \in TokenCounts
    /\ total_output_tokens \in TokenCounts

\* print_cost_report(stage_name, input_tokens, output_tokens, elapsed_time)
CostReport ==
    /\ pc = "cost"
    /\ pc' = "costed"
    /\ report' = print_cost_report("COST", total_input_tokens, total_output_tokens)
    /\ UNCHANGED <<prior, imgFiles, log, tex, image_files, idx,
                   transcribed_questions, perturbed_questions,
                   validated_questions, diag, hist, entered, called>>
    /\ UNCHANGED <<service, otherFiles, operatorVars, totalVars, stage_tokens,
                   stage_costs, summary, injected, calls>>
    /\ UNCHANGED <<sleeps, houseVars, renderVars>>

NextCost == CostReport

SpecCost == InitCost /\ [][NextCost]_vars

(***************************************************************************)
(* clear.py: the two housekeeping operations.  A file is [exists, size,    *)
(* locked]; opening or unlinking a locked file raises (it is read-only, or *)
(* in a read-only directory).  The image directory is [exists, files,      *)
(* dirs], a file of it [name, size, locked].                               *)
(***************************************************************************)
\* Lines 10-16.
OUTPUT_FILES ==
    <<"1_transcribed.jsonl", "2_perturbed.jsonl", "3_validated.jsonl",
      "4_final_document.tex">>
OutputNames == {OUTPUT_FILES[i] : i \in 1..Len(OUTPUT_FILES)}

OutFile(e, sz, lk) == [exists |-> e, size |-> sz, locked |-> lk]
\* What an output file can be when clear.py starts.
OutFileStates ==
    {OutFile(FALSE, 0, FALSE), OutFile(TRUE, 0, FALSE), OutFile(TRUE, 7, FALSE),
     OutFile(TRUE, 7, TRUE)}

ImgFile(n, sz, lk) == [name |-> n, size |-> sz, locked |-> lk]
ImgDir(e, fs, ds) == [exists |-> e, files |-> fs, dirs |-> ds]
\* What the image directory can be when clear.py starts.
ImgDirStates ==
    {ImgDir(FALSE, {}, {})}
    \cup {ImgDir(TRUE, fs, ds) :
            fs \in SUBSET {ImgFile("a.png", 5, FALSE), ImgFile("b.png", 3, TRUE)},
            ds \in SUBSET {"old"}}

\* str.upper() on the lines below.
Upper(s) ==
    IF s = "y" THEN "Y" ELSE IF s = "n" THEN "N"
    ELSE IF s = "yes" THEN "YES" ELSE s

\* How often the operator may type something other than Y or N at one
\* question.
MaxRetypes == 1
ValidLines == {Typed(FALSE, "Y"), Typed(TRUE, "y"), Typed(FALSE, "N"),
               Typed(TRUE, "n")}
InvalidLines == {Typed(FALSE, "yes")}
\* What the operator types at one question: lines that are no answer, then
\* an answer.
ConfirmLines ==
    UNION {{bad \o <<good>> : bad \in [1..n -> InvalidLines], good \in ValidLines} :
             n \in 0..MaxRetypes}

RECURSIVE get_confirmation_any(_)
get_confirmation_any(lines) ==
    LET response == Upper(Strip(Head(lines)))
    IN IF response \in {"Y", "N"}
       THEN [result |-> TRUE, responses |-> <<response>>]
       ELSE LET rest == get_confirmation_any(Tail(lines))
            IN [result |-> rest.result, responses |-> <<response>> \o rest.responses]
RECURSIVE get_confirmation(_)
\* get_confirmation(prompt), lines 22-28: the result, and the response it
\* took from each call of input().
get_confirmation(lines) ==
    LET response == Upper(Strip(Head(lines)))
    IN IF response \in {"Y", "N"}
       THEN [result |-> response = "Y", responses |-> <<response>>]
       ELSE LET rest == get_confirmation(Tail(lines))
            IN [result |-> rest.result, responses |-> <<response>> \o rest.responses]

\* The requests for input a question made.
Confirmations(name, responses) ==
    [i \in 1..Len(responses) |-> [prompt |-> name, answer |-> responses[i]]]

\* One thing printed: a file listed with its size, cleared, deleted, or not
\* (error); or that there is nothing to do ("none"), or nothing was done
\* ("kept").
Message(what, file, size) == [what |-> what, file |-> file, size |-> size]

TruncatedRemoved(f) == OutFile(FALSE, 0, FALSE)
\* with open(file, 'w') as f: pass
Truncated(f) == [f EXCEPT !.size = 0]

\* Line 34: the output files that exist, in the order of OUTPUT_FILES.
ExistingFiles(files) ==
    LET Exists(name) == files[name].exists
    IN SelectSeq(OUTPUT_FILES, Exists)

\* clear_output_files(), lines 31-65: the files afterwards, what was printed,
\* the responses taken from the operator, and whether the clearing was
\* confirmed.
clear_output_files(files, lines) ==
    LET existing_files == ExistingFiles(files)
        listing == [i \in 1..Len(existing_files) |->
                      Message("listed", existing_files[i], files[existing_files[i]].size)]
        c == get_confirmation(lines)
        done == [i \in 1..Len(existing_files) |->
                   IF files[existing_files[i]].locked
                   THEN Message("error", existing_files[i], 0)
                   ELSE Message("cleared", existing_files[i], 0)]
    IN IF existing_files = <<>>
       THEN [files |-> files, printed |-> <<Message("none", "", 0)>>,
             responses |-> <<>>, confirmed |-> FALSE]
       ELSE IF ~c.result
       THEN [files |-> files,
             printed |-> listing \o <<Message("kept", "", 0)>>,
             responses |-> c.responses, confirmed |-> FALSE]
       ELSE [files |-> [name \in OutputNames |->
                          IF files[name].exists /\ ~files[name].locked
                          THEN Truncated(files[name])
                          ELSE files[name]],
             printed |-> listing \o done,
             responses |-> c.responses, confirmed |-> TRUE]

RECURSIVE ListOf(_)
\* [f for f in IMG_DIR.iterdir() if f.is_file()]: the files in the order the
\* directory gives them.
ListOf(fs) ==
    IF fs = {} THEN <<>>
    ELSE LET f == CHOOSE x \in fs : TRUE
         IN <<f>> \o ListOf(fs \ {f})

\* clear_img_directory(), lines 68-107.
clear_img_directory(dir, lines) ==
    LET img_files == ListOf(dir.files)
        listing == [i \in 1..Len(img_files) |->
                      Message("listed", img_files[i].name, img_files[i].size)]
        c == get_confirmation(lines)
        done == [i \in 1..Len(img_files) |->
                   IF img_files[i].locked
                   THEN Message("error", img_files[i].name, 0)
                   ELSE Message("deleted", img_files[i].name, 0)]
    IN IF ~dir.exists \/ img_files = <<>>
       THEN [dir |-> dir, printed |-> <<Message("none", "", 0)>>,
             responses |-> <<>>, confirmed |-> FALSE]
       ELSE IF ~c.result
       THEN [dir |-> dir,
             printed |-> listing \o <<Message("kept", "", 0)>>,
             responses |-> c.responses, confirmed |-> FALSE]
       ELSE [dir |-> [dir EXCEPT !.files = {f \in dir.files : f.locked}],
             printed |-> listing \o done,
             responses |-> c.responses, confirmed |-> TRUE]

\* How often the operator runs clear.py.
MaxRuns == 2

\* clear.py is started on any state of the output files and of the image
\* directory.
InitClear ==
    /\ pc = "clear_output_files"
    /\ output_files \in [OutputNames -> OutFileStates]
    /\ img_dir \in ImgDirStates
    /\ printed = <<>>
    /\ runs = 1
    /\ clears = 0
    /\ inputs = <<>>
    /\ prior = FALSE
    /\ imgFiles = {}
    /\ otherFiles = {}
    /\ log = [s \in 1..3 |-> NoFile]
    /\ tex = NoTex
    /\ service = "plain"
    /\ NON_INTERACTIVE = FALSE
    /\ image_files = <<>>
    /\ idx = 0
    /\ transcribed_questions = <<>>
    /\ perturbed_questions = <<>>
    /\ validated_questions = <<>>
    /\ diag = {}
    /\ hist = <<>>
    /\ entered = {}
    /\ called = {}
    /\ clear_img = "None"
    /\ special_prompt_1 = ""
    /\ special_prompt_2 = ""
    /\ special_prompt_4 = ""
    /\ total_input_tokens = 0
    /\ total_output_tokens = 0
    /\ stage_tokens = <<>>
    /\ stage_costs = <<>>
    /\ report = NoReport
    /\ summary = NoSummary
    /\ injected = [s \in 1..4 |-> {}]
    /\ calls = <<>>
    /\ sleeps = <<>>
    /\ NoRendering

\* The variables of the pipeline, which clear.py does not have.
pipelineVars ==
    <<prior, imgFiles, otherFiles, log, tex, service, NON_INTERACTIVE,
      image_files, idx, transcribed_questions, perturbed_questions,
      validated_questions, diag, hist, entered, called, clear_img,
      special_prompt_1, special_prompt_2, special_prompt_4,
      total_input_tokens, total_output_tokens, stage_tokens, stage_costs,
      report, summary, injected, calls, sleeps>>

\* clear.py main(), line 112.
ClearOutputFiles ==
    /\ pc = "clear_output_files"
    /\ pc' = "clear_img_directory"
    /\ \E lines \in ConfirmLines :
         LET done == clear_output_files(output_files, lines)
         IN /\ output_files' = done.files
            /\ printed' = done.printed
            /\ inputs' = inputs \o Confirmations("clear_output_files", done.responses)
            /\ clears' = IF done.confirmed THEN clears + 1 ELSE clears
    /\ UNCHANGED <<img_dir, runs, pipelineVars, renderVars>>

\* clear.py main(), line 114.
ClearImgDirectory ==
    /\ pc = "clear_img_directory"
    /\ pc' = "finished"
    /\ \E lines \in ConfirmLines :
         LET done == clear_img_directory(img_dir, lines)
         IN /\ img_dir' = done.dir
            /\ printed' = done.printed
            /\ inputs' = inputs \o Confirmations("clear_img_directory", done.responses)
    /\ UNCHANGED <<output_files, runs, clears, pipelineVars, renderVars>>

\* The operator runs clear.py again.
RunClear ==
    /\ pc = "finished"
    /\ runs < MaxRuns
    /\ pc' = "clear_output_files"
    /\ runs' = runs + 1
    /\ printed' = <<>>
    /\ inputs' = <<>>
    /\ UNCHANGED <<output_files, img_dir, clears, pipelineVars, renderVars>>

NextClear ==
    \/ ClearOutputFiles
    \/ ClearImgDirectory
    \/ RunClear

SpecClear == InitClear /\ [][NextClear]_vars

(***************************************************************************)
(* The rendering of a stage prompt in the three Model Invokers that take a *)
(* special prompt.  A text is the sequence of its pieces: the marker, and  *)
(* stretches of text that hold no marker.                                  *)
(***************************************************************************)
Marker == "{special_prompt}"
DefaultRules == "None (use default rules)"
Label == "\n\n**SPECIAL INSTRUCTIONS:** "

\* The text of a line as it was given, blanks included.
Raw(line) == IF line.pad THEN " " \o line.body \o " " ELSE line.body

\* Largest number of pieces of a prompt file.
MaxPieces == 3
PromptTexts == UNION {[1..n -> {"Rules.", Marker}] : n \in 0..MaxPieces}
SpecialPrompts ==
    {Typed(FALSE, ""), Typed(TRUE, ""), Typed(FALSE, "hint"), Typed(TRUE, "hint")}

\* "{special_prompt}" in prompt_text
HasMarker(text) == \E i \in 1..Len(text) : text[i] = Marker
\* prompt_text.replace("{special_prompt}", by)
Replace(text, by) ==
    [i \in 1..Len(text) |-> IF text[i] = Marker THEN by ELSE text[i]]
\* str.replace(old, new, 1)
ReplaceFirst(text, by) ==
    [i \in 1..Len(text) |->
       IF text[i] = Marker /\ \A j \in 1..(i - 1) : text[j] # Marker
       THEN by ELSE text[i]]

InjectFirstOccurrence(text, line) ==
    IF HasMarker(text)
    THEN ReplaceFirst(text, IF Strip(line) # "" THEN Raw(line) ELSE DefaultRules)
    ELSE IF Strip(line) # "" THEN text \o <<Label \o Raw(line)>> ELSE text

\* transcribe_image, lines 140-146.
InjectTranscription(text, line) ==
    IF HasMarker(text)
    THEN LET special_prompt_text ==
               IF Strip(line) # "" THEN Raw(line) ELSE DefaultRules
         IN Replace(text, special_prompt_text)
    ELSE LET special_prompt_text ==
               IF Strip(line) # "" THEN <<Label \o Raw(line)>> ELSE <<>>
         IN text \o special_prompt_text

\* perturb_question, lines 259-265.
InjectPerturbation(text, line) ==
    IF HasMarker(text)
    THEN LET special_prompt_text ==
               IF Strip(line) # "" THEN Raw(line) ELSE DefaultRules
         IN Replace(text, special_prompt_text)
    ELSE LET special_prompt_text ==
               IF Strip(line) # "" THEN <<Label \o Raw(line)>> ELSE <<>>
         IN text \o special_prompt_text

\* extract_to_latex, lines 478-484.
InjectExtraction(text, line) ==
    IF HasMarker(text)
    THEN LET special_prompt_text ==
               IF Strip(line) # "" THEN Raw(line) ELSE DefaultRules
         IN Replace(text, special_prompt_text)
    ELSE LET special_prompt_text ==
               IF Strip(line) # "" THEN <<Label \o Raw(line)>> ELSE <<>>
         IN text \o special_prompt_text

\* The Model Invoker of stage s renders its prompt.
Inject(s, text, line) ==
    IF s = 1 THEN InjectTranscription(text, line)
    ELSE IF s = 2 THEN InjectPerturbation(text, line)
    ELSE InjectExtraction(text, line)

\* A Model Invoker of stage 1, 2 or 4 is called with any prompt text and any
\* special prompt.
InitRender ==
    /\ pc = "render"
    /\ entered \in {{1}, {2}, {4}}
    /\ prompt_text \in PromptTexts
    /\ special_prompt \in SpecialPrompts
    /\ prompt_with_special = <<>>
    /\ NoHousekeeping
    /\ inputs = <<>>
    /\ prior = FALSE
    /\ imgFiles = {}
    /\ otherFiles = {}
    /\ log = [s \in 1..3 |-> NoFile]
    /\ tex = NoTex
    /\ service = "plain"
    /\ NON_INTERACTIVE = FALSE
    /\ image_files = <<>>
    /\ idx = 0
    /\ transcribed_questions = <<>>
    /\ perturbed_questions = <<>>
    /\ validated_questions = <<>>
    /\ diag = {}
    /\ hist = <<>>
    /\ called = {}
    /\ clear_img = "None"
    /\ special_prompt_1 = ""
    /\ special_prompt_2 = ""
    /\ special_prompt_4 = ""
    /\ total_input_tokens = 0
    /\ total_output_tokens = 0
    /\ stage_tokens = <<>>
    /\ stage_costs = <<>>
    /\ report = NoReport
    /\ summary = NoSummary
    /\ injected = [s \in 1..4 |-> {}]
    /\ calls = <<>>
    /\ sleeps = <<>>

RenderPrompt ==
    /\ pc = "render"
    /\ pc' = "rendered"
    /\ prompt_with_special' =
         Inject(CHOOSE s \in entered : TRUE, prompt_text, special_prompt)
    /\ UNCHANGED <<prompt_text, special_prompt, inputs, houseVars, pipelineVars>>

NextRender == RenderPrompt

SpecRender == InitRender /\ [][NextRender]_vars

(***************************************************************************)
(* Properties.                                                             *)
(***************************************************************************)
\* The stage hist speaks about: the last stage runner entered (0: none yet).
Cur == IF entered = {} THEN 0 ELSE CHOOSE s \in entered : \A r \in entered : r <= s

\* The input sequence and the accepted sequence of stage s.
Input(s) ==
    IF s = 1 THEN image_files
    ELSE IF s = 2 THEN transcribed_questions
    ELSE perturbed_questions
Accepted(s) ==
    IF s = 1 THEN transcribed_questions
    ELSE IF s = 2 THEN perturbed_questions
    ELSE validated_questions

Running == {"transcribing", "perturbing", "validating"}
\* Stage Cur has returned to main().
HasReturned == pc \in {"ret1", "ret2", "ret3", "stage2", "stage3", "stage4", "aborted"}

IsFine(h) == h.kind = "fine"
IsCurrent(l) == l.run = "current"
Fine == SelectSeq(hist, IsFine)
NumFailed == Len(hist) - Len(Fine)
\* The lines of log s written by this run.
CurrentLines(s) == SelectSeq(log[s].lines, IsCurrent)
\* The item stage s accepts for the fine unit h.
ItemOf(s, h) == IF s = 3 THEN perturbed_questions[h.unit] ELSE Loads(h.text)
InitialTex == IF prior THEN PriorTex ELSE NoTex

\* C1: in stages 1-3 every unit is attempted whatever happened to the units
\* before it (each unit so far has its entry, in order), and when the stage
\* has returned all N units were attempted and the accepted sequence has
\* N minus the number of failed or rejected units elements.
C1_StageIsolation ==
    /\ pc \in Running =>
         /\ Len(hist) = idx - 1
         /\ \A i \in 1..Len(hist) : hist[i].unit = i
    /\ (Cur \in 1..3 /\ HasReturned) =>
         /\ Len(hist) = Len(Input(Cur))
         /\ Len(Accepted(Cur)) = Len(Input(Cur)) - NumFailed

C1_Witness ==
    /\ Cur = 2 /\ pc = "ret2"
    /\ Len(transcribed_questions) = 2
    /\ Len(hist) = 2 /\ hist[1].kind = "failed" /\ hist[2].kind = "fine"
    /\ Len(perturbed_questions) = 1

\* C2: a stage runner is entered only if the stage before it returned a
\* non-empty accepted sequence; the service is invoked only by an entered
\* stage; and in Aborted the stage that ended the run returned nothing, and
\* no stage after it was entered or invoked the service.
C2_CoordinatorGate ==
    /\ 2 \in entered => transcribed_questions # <<>>
    /\ 3 \in entered => perturbed_questions # <<>>
    /\ 4 \in entered => validated_questions # <<>>
    /\ called \subseteq entered
    /\ pc = "aborted" =>
         /\ Cur \in 1..3
         /\ Accepted(Cur) = <<>>
         /\ entered = 1..Cur

C2_Witness ==
    /\ pc = "aborted"
    /\ Cur = 3
    /\ Len(perturbed_questions) = 2 /\ Len(hist) = 2
    /\ validated_questions = <<>>
    /\ 4 \notin entered /\ 4 \notin called

\* C3 (as claimed): main() is Done only if Extraction accepted its unit: the
\* response parsed, contained a 'latex_document', and the document was
\* written by this run.
C3_DoneOnlyIfExtracted ==
    pc = "done" =>
        /\ Len(hist) = 1 /\ hist[1].kind = "fine"
        /\ tex.exists /\ tex.run = "current"

\* C4: what Validation returns and what it appends to its log are the input
\* items of the accepted units, unchanged and in order.
C4_ValidationKeepsItem ==
    /\ Cur = 3 =>
         /\ Len(validated_questions) = Len(Fine)
         /\ \A k \in 1..Len(Fine) :
              validated_questions[k] = perturbed_questions[Fine[k].unit]
    /\ 3 \in entered =>
         /\ Len(CurrentLines(3)) = Len(validated_questions)
         /\ \A k \in 1..Len(validated_questions) :
              /\ CurrentLines(3)[k].text = Dumps(validated_questions[k]) \o "\n"
              /\ \E i \in 1..Len(perturbed_questions) :
                   validated_questions[k] = perturbed_questions[i]

C4_Witness ==
    /\ Cur = 3 /\ pc = "ret3"
    /\ Len(hist) = 2 /\ hist[1].kind = "failed" /\ hist[2].kind = "fine"
    /\ perturbed_questions[1] # perturbed_questions[2]
    /\ validated_questions = <<perturbed_questions[2]>>

\* C5 (as claimed): once the runner of a stage 1-3 has started, its log
\* holds no record written by a prior run.  Stated for the runs in which no
\* resource was missing (a missing prompt file ends the run in an uncaught
\* error before the log is touched).
C5_NoPriorRecordOnceStarted ==
    \A s \in 1..3 :
        (s \in entered /\ pc # "crashed") =>
            \A k \in 1..Len(log[s].lines) : log[s].lines[k].run # "prior"

C7_FailedExtractionKeepsDocument ==
    (Cur = 4 /\ Len(hist) = 1 /\ hist[1].kind \in {"raise", "noparse", "nofield"}) =>
        /\ tex = InitialTex
        /\ diag # {}

C7_Witness ==
    /\ pc = "ret4"
    /\ prior
    /\ Len(hist) = 1 /\ hist[1].kind = "nofield"
    /\ tex = PriorTex
    /\ diag = {"nofield"}

\* C8 (as claimed): once the Extraction stage has started, the final
\* document holds no content of a prior run.
C8_DocumentResetAtStart ==
    4 \in entered => tex.run # "prior"

\* C8 (amended): the Extraction stage does not reset the final document
\* when it starts: while the service is being invoked the document is as it
\* was before the run, and it differs from that only after the response
\* parsed and had a 'latex_document' and the file was opened for writing.
C8_DocumentKeptUntilAccepted ==
    /\ pc = "extracting" => tex = InitialTex
    /\ tex # InitialTex =>
         /\ Cur = 4 /\ 4 \in called
         /\ Len(hist) = 1 /\ hist[1].kind \in {"fine", "notext"}

C8_Witness ==
    /\ pc = "extracting"
    /\ 4 \in entered
    /\ tex = PriorTex

\* An object with a member 'question' whose value is a non-empty string.
HasNonEmptyQuestion(v) ==
    /\ v.kind = "object"
    /\ \E i \in 1..Len(v.items) :
         /\ v.items[i].key = "question"
         /\ v.items[i].type = "string"
         /\ v.items[i].text # ""

C10_OrderPreserved ==
    Cur \in 1..3 =>
        /\ \A i \in 1..Len(hist) : hist[i].unit = i
        /\ Len(Accepted(Cur)) = Len(Fine)
        /\ Len(CurrentLines(Cur)) = Len(Fine)
        /\ \A k \in 1..Len(Fine) :
             /\ Accepted(Cur)[k] = ItemOf(Cur, Fine[k])
             /\ CurrentLines(Cur)[k].text = Dumps(ItemOf(Cur, Fine[k])) \o "\n"
             /\ CurrentLines(Cur)[k].unit = Fine[k].unit

\* Three images, the second rejected: the log holds the records of images 1
\* and 3 in that order, and main() goes on to stage 2.
C10_Witness ==
    /\ Cur = 1 /\ pc = "stage2"
    /\ Len(image_files) = 3
    /\ Len(hist) = 3
    /\ hist[1].kind = "fine" /\ hist[2].kind = "failed" /\ hist[3].kind = "fine"
    /\ Len(CurrentLines(1)) = 2
    /\ CurrentLines(1)[1].unit = 1 /\ CurrentLines(1)[2].unit = 3
    /\ transcribed_questions[1] # transcribed_questions[2]

\* C11: no service call is retried.  While a stage 1-3 runs, the service
\* has been invoked once for each unit before the current one, in order, and
\* for no other; when the stage has returned, once for each of its N units,
\* failed or not; Extraction invokes it at most once; every invocation has
\* one outcome.
C11_NoRetry ==
    /\ Len(calls) = Len(hist)
    /\ Cur \in 1..3 => \A i \in 1..Len(calls) : calls[i] = i
    /\ pc \in Running => Len(calls) = idx - 1
    /\ (Cur \in 1..3 /\ HasReturned) => Len(calls) = Len(Input(Cur))
    /\ Cur = 4 => Len(calls) <= 1

\* Two units, the invocation for the first failed: the next and last
\* invocation was for the second.
C11_Witness ==
    /\ Cur = 2 /\ pc = "ret2"
    /\ Len(transcribed_questions) = 2
    /\ calls = <<1, 2>>
    /\ hist[1].kind = "failed" /\ hist[2].kind = "fine"

IsNoUsage(h) == h.kind = "nousage"
\* The units whose response was acceptable and could be written but held
\* None as its usage.
NoUsage == SelectSeq(hist, IsNoUsage)

\* C12 (as claimed): in stages 1-3 a unit whose response is acceptable is
\* accepted whether or not the response carries usage metadata: the accepted
\* units are the fine ones and those whose usage was missing.
C12_MissingUsageIsNoFailure ==
    Cur \in 1..3 => Len(Accepted(Cur)) = Len(Fine) + Len(NoUsage)

RECURSIVE SumTokens(_, _)
\* The sum of the input (i = 1) or output (i = 2) token counts of the units
\* of hs.
SumTokens(hs, i) ==
    IF hs = <<>> THEN 0
    ELSE (IF i = 1 THEN Head(hs).input_tokens ELSE Head(hs).output_tokens)
         + SumTokens(Tail(hs), i)

\* A runner of stages 1-3 has returned to main(), which has not gone on yet.
JustReturned == pc \in {"ret1", "ret2", "ret3"}

\* C13 (as claimed): the token totals a stage 1-3 returns are the sums of
\* the token counts of the units it accepted.
C13_TotalsOfAcceptedOnly ==
    (Cur \in 1..3 /\ JustReturned) =>
        stage_tokens[Cur] = <<SumTokens(Fine, 1), SumTokens(Fine, 2)>>

\* C13 (amended): the running totals of a stage 1-3, and the totals it
\* returns, are the sums of the token counts of every unit whose service
\* call returned, accepted or not; only a unit whose call raised adds
\* nothing.
C13_TotalsOfReturnedCalls ==
    /\ pc \in Running =>
         /\ total_input_tokens = SumTokens(hist, 1)
         /\ total_output_tokens = SumTokens(hist, 2)
    /\ (Cur \in 1..3 /\ JustReturned) =>
         stage_tokens[Cur] = <<SumTokens(hist, 1), SumTokens(hist, 2)>>

\* One unit accepted and one skipped, both responses with token counts: the
\* stage returns the counts of both.
C13_Witness ==
    /\ Cur = 1 /\ pc = "ret1"
    /\ Len(hist) = 2
    /\ hist[1].kind = "failed" /\ hist[1].input_tokens = PromptTokens
    /\ hist[2].kind = "fine" /\ hist[2].input_tokens = PromptTokens
    /\ stage_tokens[1] = <<2 * PromptTokens, 2 * CompletionTokens>>

\* An amount of d dollars and c cents, in the unit costs are counted in (a
\* millionth of a cent), and a rate of d dollars and c cents per million
\* tokens, in that unit per token.
Dollars(d, c) == (100 * d + c) * Million
PerMillion(d, c) == 100 * d + c

\* C14: the cost print_cost_report reports for any token counts is the input
\* count times $1.25 per million plus the output count times $10.00 per
\* million; a million tokens of each cost $11.25.
C14_CostFormula ==
    pc = "costed" =>
        /\ report.input_tokens = total_input_tokens
        /\ report.output_tokens = total_output_tokens
        /\ report.input_cost = report.input_tokens * PerMillion(1, 25)
        /\ report.output_cost = report.output_tokens * PerMillion(10, 0)
        /\ report.total_cost = report.input_cost + report.output_cost
        /\ (report.input_tokens = Million /\ report.output_tokens = Million) =>
              report.total_cost = Dollars(11, 25)

C14_Witness ==
    /\ pc = "costed"
    /\ report.input_tokens = Million /\ report.output_tokens = Million
    /\ report.total_cost = Dollars(11, 25)

\* C15: when the final summary has been printed, stage_costs holds one entry
\* for each of the four stages, the pair its runner returned; the grand
\* totals are the sums of the four pairs, and the grand total cost is the sum
\* of the four stage costs.
C15_GrandTotals ==
    pc = "done" =>
        /\ DOMAIN stage_tokens = 1..4
        /\ DOMAIN stage_costs = StageKeys
        /\ Cardinality(StageKeys) = 4
        /\ \A s \in 1..4 : stage_costs[StageKey(s)] = stage_tokens[s]
        /\ summary.total_input_tokens =
             stage_tokens[1][1] + stage_tokens[2][1]
             + stage_tokens[3][1] + stage_tokens[4][1]
        /\ summary.total_output_tokens =
             stage_tokens[1][2] + stage_tokens[2][2]
             + stage_tokens[3][2] + stage_tokens[4][2]
        /\ DOMAIN summary.stage_cost = StageKeys
        /\ summary.total_cost =
             summary.stage_cost[StageKey(1)] + summary.stage_cost[StageKey(2)]
             + summary.stage_cost[StageKey(3)] + summary.stage_cost[StageKey(4)]

\* Every stage returned token counts, and the summary adds them up.
C15_Witness ==
    /\ pc = "done"
    /\ \A s \in 1..4 : stage_tokens[s][1] > 0 /\ stage_tokens[s][2] > 0
    /\ stage_tokens[1] # stage_tokens[3]
    /\ summary.total_input_tokens > stage_tokens[1][1] + stage_tokens[2][1]
                                    + stage_tokens[3][1]

\* C16: a step of a run with --force requests no operator input, leaves
\* every special prompt empty and the clear-images decision at no (or not
\* taken), and deletes no file of the image directory.
C16_NonInteractiveAsksNothing ==
    [][NON_INTERACTIVE =>
         /\ inputs' = <<>>
         /\ special_prompt_1' = "" /\ special_prompt_2' = "" /\ special_prompt_4' = ""
         /\ \A s \in 1..4 : injected'[s] \subseteq {""}
         /\ clear_img' \in {"None", "False"}
         /\ imgFiles' = imgFiles /\ otherFiles' = otherFiles]_vars

\* A run with --force on a directory with images and another file has gone
\* through all four stages.
C16_Witness ==
    /\ NON_INTERACTIVE
    /\ pc = "done"
    /\ Len(image_files) = 2 /\ imgFiles = {1, 2} /\ otherFiles # {}
    /\ clear_img = "False"
    /\ inputs = <<>>
    /\ injected[1] = {""} /\ injected[4] = {""}

\* The name under which the operator is asked for the instruction of stage s.
PromptName(s) ==
    IF s = 1 THEN "TRANSCRIPTION"
    ELSE IF s = 2 THEN "PERTURBATION"
    ELSE IF s = 3 THEN "VALIDATION"
    ELSE "LaTeX EXTRACTION"
\* The requests made under a name.
RequestsFor(name) == {i \in 1..Len(inputs) : inputs[i].prompt = name}

\* C17 (as claimed): in interactive mode every stage entered was preceded by
\* exactly one request for its instruction, and the instruction passed to
\* its Model Invoker is the answer to that request.
C17_PromptedBeforeEveryStage ==
    ~NON_INTERACTIVE =>
        \A s \in entered :
            /\ Cardinality(RequestsFor(PromptName(s))) = 1
            /\ \A i \in RequestsFor(PromptName(s)) : injected[s] \subseteq {inputs[i].answer}

\* C17 (amended): in interactive mode Transcription, Perturbation and
\* Extraction are each preceded by exactly one request for an instruction,
\* asked in that order, and the instruction passed to the stage's Model
\* Invoker is the answer; no instruction is requested for Validation and
\* none is passed to its Model Invoker.
C17_PromptedBeforeThreeStages ==
    ~NON_INTERACTIVE =>
        /\ \A s \in {1, 2, 4} :
             /\ Cardinality(RequestsFor(PromptName(s))) <= 1
             /\ (s \in entered \/ pc = "stage" \o ToString(s)) =>
                   Cardinality(RequestsFor(PromptName(s))) = 1
             /\ \A i \in RequestsFor(PromptName(s)) :
                   injected[s] \subseteq {inputs[i].answer}
             /\ RequestsFor(PromptName(s)) = {} => injected[s] = {}
        /\ RequestsFor(PromptName(3)) = {}
        /\ injected[3] = {}
        /\ \A i \in RequestsFor(PromptName(4)) : i = Len(inputs)
        /\ \A i \in RequestsFor(PromptName(2)) :
             \E j \in RequestsFor(PromptName(1)) : j < i

\* An interactive run through all four stages: the operator was asked three
\* times for an instruction and gave one for Perturbation only.
C17_Witness ==
    /\ ~NON_INTERACTIVE
    /\ pc = "done"
    /\ entered = 1..4 /\ called = 1..4
    /\ Cardinality(RequestsFor(PromptName(1))) = 1
    /\ Cardinality(RequestsFor(PromptName(2))) = 1
    /\ Cardinality(RequestsFor(PromptName(4))) = 1
    /\ injected[1] = {""} /\ injected[2] = {"hint"} /\ injected[3] = {}
    /\ injected[4] = {""}

\* C18: the operator is asked the clear-images question at most once, as the
\* first request of the run, and the decision is set before stage 1 starts
\* and never again; a step that deletes a file of the image directory is
\* main()'s step after run_transcription_stage has returned, the decision
\* being yes.
C18_ClearDecidedOnceAppliedAfter ==
    /\ [](RequestsFor("clear") \subseteq {1})
    /\ [][/\ clear_img' # clear_img => pc = "start"
          /\ RequestsFor("clear")' # RequestsFor("clear") => pc = "start"
          /\ (imgFiles' # imgFiles \/ otherFiles' # otherFiles) =>
                /\ pc = "ret1"
                /\ clear_img = "True"
                /\ 1 \in entered]_vars

\* The operator said yes: after Transcription the directory is empty.
C18_Witness ==
    /\ pc = "stage2"
    /\ clear_img = "True"
    /\ inputs[1].prompt = "clear" /\ inputs[1].answer = "True"
    /\ Len(image_files) = 2
    /\ imgFiles = {} /\ otherFiles = {}

\* A resource a stage needs could not be loaded: a prompt or template file
\* (the run ends in the uncaught error), or the examples of Extraction.
ResourceError ==
    \/ pc = "crashed"
    \/ diag \cap {"no_examples_dir", "no_examples"} # {}

\* C19 (as claimed): after a resource-loading error the stage that met it
\* has invoked no service call and written no output, and main() does not
\* end Done.
C19_MissingResourceHalts ==
    ResourceError =>
        /\ Cur \notin called
        /\ Cur = 4 => tex = InitialTex
        /\ pc # "done"

\* The value is an object whose 'well_posed' is the boolean true.
IsBooleanTrue(v) ==
    /\ v.kind = "object"
    /\ \E i \in 1..Len(v.items) :
         /\ v.items[i].key = "well_posed"
         /\ v.items[i].type = "bool"
         /\ v.items[i].text = "true"

\* C20 (as claimed): every unit Validation accepted had a response that
\* parsed to an object with the boolean 'well_posed' true.
C20_AcceptsOnlyBooleanTrue ==
    Cur = 3 =>
        \A i \in 1..Len(hist) :
            hist[i].kind = "fine" => IsBooleanTrue(Loads(hist[i].text))

\* clear_output_files() ran with the operator's Y.
ConfirmedClear == pc = "clear_output_files" /\ clears' = clears + 1

\* Every output file that exists is empty.
AllEmpty(files) ==
    \A name \in OutputNames : files[name].exists => files[name].size = 0

\* C21: a confirmed clear of output files that are all empty leaves each of
\* them existing and empty and lists each with zero bytes; a confirmed clear
\* after an earlier confirmed clear leaves the files as the earlier one left
\* them.
C21_ClearIdempotent ==
    [][ConfirmedClear =>
         /\ AllEmpty(output_files) =>
              /\ output_files' = output_files
              /\ \A name \in OutputNames :
                   output_files[name].exists =>
                     /\ output_files'[name].exists
                     /\ output_files'[name].size = 0
                     /\ \E i \in 1..Len(printed') :
                          printed'[i] = Message("listed", name, 0)
         /\ clears >= 1 => output_files' = output_files]_vars

\* The second confirmed clear has run: a file the first one emptied was
\* listed with zero bytes and cleared again.
C21_Witness ==
    /\ pc = "clear_img_directory"
    /\ clears = 2
    /\ \E name \in OutputNames :
         /\ output_files[name] = OutFile(TRUE, 0, FALSE)
         /\ \E i, j \in 1..Len(printed) :
              /\ printed[i] = Message("listed", name, 0)
              /\ printed[j] = Message("cleared", name, 0)

FileSystemChanged == output_files' # output_files \/ img_dir' # img_dir

\* The operator was asked in this step.
AskedNow == Len(inputs') > Len(inputs)

\* The file was listed with its size before anything was reported cleared,
\* deleted or failed.
ListedFirst(name, size) ==
    \E i \in 1..Len(printed') :
        /\ printed'[i] = Message("listed", name, size)
        /\ \A j \in 1..Len(printed') :
             printed'[j].what \in {"cleared", "deleted", "error"} => i < j

\* C22: files are truncated or deleted only in a step in which the operator
\* answered Y, and each such file was listed before; after N, or when no
\* affected file exists, nothing changes (and without affected files the
\* operator is not asked).
C22_ChangeOnlyAfterYes ==
    [][/\ FileSystemChanged => AskedNow /\ inputs'[Len(inputs')].answer = "Y"
       /\ \A name \in OutputNames :
            output_files'[name] # output_files[name] =>
              ListedFirst(name, output_files[name].size)
       /\ \A f \in img_dir.files \ img_dir'.files : ListedFirst(f.name, f.size)
       /\ img_dir'.files \subseteq img_dir.files
       /\ img_dir'.exists = img_dir.exists /\ img_dir'.dirs = img_dir.dirs
       /\ AskedNow /\ inputs'[Len(inputs')].answer = "N" => ~FileSystemChanged
       /\ pc = "clear_output_files" /\ ExistingFiles(output_files) = <<>> =>
            ~FileSystemChanged /\ inputs' = inputs
       /\ pc = "clear_img_directory" /\ img_dir.files = {} =>
            ~FileSystemChanged /\ inputs' = inputs]_vars

\* The operator typed something else first and then y: the file that can be
\* deleted is gone, the other is still there.
C22_Witness ==
    /\ pc = "finished"
    /\ Len(inputs) >= 2
    /\ inputs[Len(inputs) - 1] = [prompt |-> "clear_img_directory", answer |-> "YES"]
    /\ inputs[Len(inputs)] = [prompt |-> "clear_img_directory", answer |-> "Y"]
    /\ \E i, j \in 1..Len(printed) :
         /\ i < j
         /\ printed[i] = Message("listed", "a.png", 5)
         /\ printed[j] = Message("deleted", "a.png", 0)
    /\ img_dir.files = {ImgFile("b.png", 3, TRUE)}

\* C23: in Perturbation and Validation there is one delay for every unit
\* processed so far except the first, failed units included (N - 1 delays
\* once the stage has returned from N units); in Transcription and
\* Extraction there is none.
C23_DelayBetweenUnits ==
    /\ Cur \in {2, 3} =>
         /\ sleeps = [i \in 1..(Len(hist) - 1) |-> i + 1]
         /\ Len(calls) = Len(hist)
         /\ HasReturned => Len(sleeps) = Len(Input(Cur)) - 1
    /\ Cur \notin {2, 3} => sleeps = <<>>

\* Validation has returned from two units, the first of which failed: one
\* delay, before the second.
C23_Witness ==
    /\ Cur = 3
    /\ pc = "ret3"
    /\ Len(hist) = 2
    /\ hist[1].kind = "failed"
    /\ sleeps = <<2>>

\* C24: once the prompt of Transcription, Perturbation or Extraction is
\* rendered: with the marker in the template, every occurrence is replaced
\* by the instruction (by the default text when the instruction is blank),
\* the rest is unchanged and nothing is appended; without it, a non-blank
\* instruction is appended behind the SPECIAL INSTRUCTIONS label and a blank
\* one leaves the template unchanged.
C24_PlaceholderRule ==
    pc = "rendered" =>
        LET blank == Strip(special_prompt) = ""
        IN IF \E i \in 1..Len(prompt_text) : prompt_text[i] = Marker
           THEN /\ Len(prompt_with_special) = Len(prompt_text)
                /\ \A i \in 1..Len(prompt_text) :
                     prompt_with_special[i] =
                       IF prompt_text[i] # Marker THEN prompt_text[i]
                       ELSE IF blank THEN "None (use default rules)"
                       ELSE Raw(special_prompt)
           ELSE prompt_with_special =
                  IF blank THEN prompt_text
                  ELSE Append(prompt_text,
                              "\n\n**SPECIAL INSTRUCTIONS:** " \o Raw(special_prompt))

\* Perturbation rendered a template with the marker in two places and an
\* instruction that is not blank.
C24_Witness ==
    /\ pc = "rendered"
    /\ entered = {2}
    /\ prompt_text = <<Marker, "Rules.", Marker>>
    /\ special_prompt = Typed(TRUE, "hint")
    /\ prompt_with_special = <<" hint ", "Rules.", " hint ">>

\* C25 (as claimed): in stages 1-3, between units and once the stage runner
\* has returned, the records of the stage's log are, one for one and in
\* order, the elements of its accepted sequence.
C25_LogMatchesAccepted ==
    (Cur \in 1..3 /\ (pc \in Running \/ JustReturned)) =>
        /\ Len(log[Cur].lines) = Len(Accepted(Cur))
        /\ \A k \in 1..Len(Accepted(Cur)) :
             log[Cur].lines[k].text = Dumps(Accepted(Cur)[k]) \o "\n"

\* C26: when Transcription has returned an empty accepted sequence main()
\* aborts and leaves every file of the image directory in place, whatever
\* the operator answered; a file leaves the image directory only in a step
\* of a run whose Transcription accepted an item and whose operator said
\* yes.
C26_NoClearOnAbort ==
    [][/\ (pc = "ret1" /\ transcribed_questions = <<>>) =>
            /\ pc' = "aborted"
            /\ imgFiles' = imgFiles
            /\ otherFiles' = otherFiles
       /\ (imgFiles' # imgFiles \/ otherFiles' # otherFiles) =>
            /\ pc = "ret1"
            /\ transcribed_questions # <<>>
            /\ clear_img = "True"]_vars

\* The operator said yes, both images were rejected: the run has aborted
\* and the images are still there.
C26_Witness ==
    /\ pc = "aborted"
    /\ Cur = 1
    /\ clear_img = "True"
    /\ inputs[1].prompt = "clear" /\ inputs[1].answer = "True"
    /\ Len(image_files) = 2
    /\ transcribed_questions = <<>>
    /\ Cardinality(imgFiles) = 2

\* Extraction has returned to main().
ExtractionReturned == Cur = 4 /\ pc \in {"ret4", "done"}

\* C27 (as claimed): the token pair Extraction returns is the pair of the
\* service call whenever the call returned and its response parsed, with or
\* without 'latex_document', and (0, 0) otherwise.
C27_UsageWheneverParsed ==
    ExtractionReturned =>
        stage_tokens[4] =
            IF hist # <<>> /\ hist[1].kind \in {"fine", "nofield", "notext", "nowrite"}
            THEN <<hist[1].input_tokens, hist[1].output_tokens>>
            ELSE <<0, 0>>

\* C27 (amended): the token pair Extraction returns is the pair the Model
\* Invoker returned when the document was written or the response parsed
\* and held no 'latex_document'; it is (0, 0) in every other outcome, a
\* document that could not be written included.
C27_UsageOfCompletedExtraction ==
    ExtractionReturned =>
        stage_tokens[4] =
            IF hist # <<>> /\ diag \subseteq {"nofield"}
            THEN <<hist[1].input_tokens, hist[1].output_tokens>>
            ELSE <<0, 0>>

\* The call returned with token counts and a document, the file could not
\* be opened: Extraction returned (0, 0).
C27_Witness ==
    /\ ExtractionReturned
    /\ hist # <<>>
    /\ hist[1].kind = "nowrite"
    /\ hist[1].input_tokens = PromptTokens
    /\ hist[1].output_tokens = CompletionTokens
    /\ stage_tokens[4] = <<0, 0>>
====
